---- MODULE Spec2Model ----
(***************************************************************************)
(* Amar Store safety inventory: the Streamlit dashboards of                *)
(* src/inventory/api.py (base variant) and src/inventory/ui.py (history-   *)
(* logging variant).  One session of one of the two programs: the          *)
(* in-memory models st.session_state.inventory / .categories, the three    *)
(* backing CSV files, the wall clock, and one action per form or button    *)
(* handler.  Strings the code trims, splits or lower-cases (product names, *)
(* size lists) are sequences of one-character strings; category names are  *)
(* only ever compared exactly and stay TLA+ strings.                       *)
(***************************************************************************)
EXTENDS Integers, Sequences, FiniteSets, TLC

VARIABLES
    variant,      \* "base" (api.py) or "log" (ui.py): which program runs
    inventory,    \* st.session_state.inventory : sequence of StockItem records
    categories,   \* st.session_state.categories : sequence of names
    invFile,      \* amar_store_inventory.csv
    catFile,      \* amar_store_categories.csv
    histFile,     \* amar_store_history.csv (written by ui.py only)
    now,          \* the wall clock, in milliseconds
    last,         \* what the most recent handler run did (observation only)
    session,      \* "A" or "B": the browser session whose script run is modelled
    other         \* the session_state of the other browser session

vars ==
    <<variant, inventory, categories, invFile, catFile, histFile, now, last,
      session, other>>

----------------------------------------------------------------------------
(* Bounds of the model *)

MaxItems == 2        \* most StockItems in the inventory
MaxClock == 1        \* the clock runs from 0 to MaxClock milliseconds
MaxStock == 1        \* increments stop at this stock
MaxHistory == 2      \* most rows of the history file

----------------------------------------------------------------------------
(* Strings *)

\* str.lower(), character by character
LowerChar(c) ==
    CASE c = "S" -> "s"
      [] c = "M" -> "m"
      [] c = "L" -> "l"
      [] c = "H" -> "h"
      [] OTHER -> c

lower(s) == [i \in 1..Len(s) |-> LowerChar(s[i])]

IsSpace(c) == c = " "

RECURSIVE lstrip(_)
lstrip(s) == IF s # <<>> /\ IsSpace(Head(s)) THEN lstrip(Tail(s)) ELSE s

RECURSIVE rstrip(_)
rstrip(s) ==
    IF s # <<>> /\ IsSpace(s[Len(s)]) THEN rstrip(SubSeq(s, 1, Len(s) - 1)) ELSE s

\* str.strip()
strip(s) == rstrip(lstrip(s))

\* str.split(','): the pieces between commas, empty pieces kept
RECURSIVE SplitFrom(_, _, _)
SplitFrom(s, i, cur) ==
    IF i > Len(s) THEN <<cur>>
    ELSE IF s[i] = "," THEN <<cur>> \o SplitFrom(s, i + 1, <<>>)
    ELSE SplitFrom(s, i + 1, Append(cur, s[i]))

split(s) == SplitFrom(s, 1, <<>>)

\* [s.strip() for s in sizes_input.split(',') if s.strip()]
sizes_list(sizes_input) ==
    LET parts == split(sizes_input)
        stripped == [i \in 1..Len(parts) |-> strip(parts[i])]
    IN  SelectSeq(stripped, LAMBDA p : p # <<>>)

----------------------------------------------------------------------------
(* Records and files *)

\* the StockItem dictionary built by the create handlers
new_item(id, category, name, size, stock, t) ==
    [id |-> id, category |-> category, name |-> name, size |-> size,
     stock |-> stock, last_updated |-> t \div (24 * 60 * 60 * 1000)]

InventoryColumns == <<"id", "category", "name", "size", "stock", "last_updated">>
CategoryColumns == <<"category_name">>
HistoryColumns ==
    <<"timestamp", "product_name", "size", "action", "change", "final_stock">>

DEFAULT_CATEGORIES ==
    <<"Boiler Suits", "Safety Shoes", "Helmets", "Gloves", "Safety Jackets",
      "Face Shields">>

\* a file that does not exist
NoFile == [exists |-> FALSE, columns |-> <<>>, rows |-> <<>>]

\* one CSV line of the inventory file
InventoryRow(item) ==
    <<item.id, item.category, item.name, item.size, item.stock, item.last_updated>>

save_inventory(data) ==
    IF data = <<>>
    THEN [exists |-> TRUE, columns |-> InventoryColumns, rows |-> <<>>]
    ELSE [exists |-> TRUE, columns |-> InventoryColumns,
          rows |-> [i \in 1..Len(data) |-> InventoryRow(data[i])]]

save_categories(data_list) ==
    [exists |-> TRUE, columns |-> CategoryColumns,
     rows |-> [i \in 1..Len(data_list) |-> <<data_list[i]>>]]

\* pd.read_csv raises on a file without a header line and on a line that
\* holds more fields than the header
read_csv_fails(file) ==
    \/ file.columns = <<>>
    \/ \E i \in 1..Len(file.rows) : Len(file.rows[i]) > Len(file.columns)

\* df.to_dict('records') of the inventory file: one dictionary per line
load_inventory(file) ==
    IF ~file.exists THEN <<>>
    ELSE IF read_csv_fails(file) \/ file.columns # InventoryColumns THEN <<>>
    ELSE [i \in 1..Len(file.rows) |->
             [id |-> file.rows[i][1], category |-> file.rows[i][2],
              name |-> file.rows[i][3], size |-> file.rows[i][4],
              stock |-> file.rows[i][5], last_updated |-> file.rows[i][6]]]

\* df['category_name'].tolist(), or the defaults
load_categories(file) ==
    IF ~file.exists THEN DEFAULT_CATEGORIES
    ELSE IF read_csv_fails(file) THEN DEFAULT_CATEGORIES
    ELSE IF file.columns = CategoryColumns
         THEN [i \in 1..Len(file.rows) |-> file.rows[i][1]]
         ELSE DEFAULT_CATEGORIES

log_history(file, product_name, size, action, change_qty, current_stock, t) ==
    LET new_entry ==
            <<t \div 1000, product_name, size, action, change_qty, current_stock>>
        fresh == [exists |-> TRUE, columns |-> HistoryColumns, rows |-> <<new_entry>>]
    IN  IF file.exists
        THEN IF read_csv_fails(file)
             THEN fresh
             ELSE [exists |-> TRUE, columns |-> file.columns,
                   rows |-> Append(file.rows, new_entry)]
        ELSE fresh

\* what the last handler run did: its operation and arguments, the message it
\* showed (report: "count" for one that shows count, "success", "warning",
\* "none"), the files it saved, the log_history calls it made
Last(op, cat, name, sizes, stock, id, count, report, saved, logged) ==
    [op |-> op, cat |-> cat, name |-> name, sizes |-> sizes, stock |-> stock,
     id |-> id, count |-> count, report |-> report, saved |-> saved,
     logged |-> logged]

----------------------------------------------------------------------------
(* src/inventory/api.py : the base variant *)

\* names offered by the "Select Existing Product" selectbox
existing_names(inv) == {inv[i].name : i \in 1..Len(inv)}

ItemIds(inv) == {inv[i].id : i \in 1..Len(inv)}

\* the options of the category selectbox of the New Product form
api_category_options ==
    IF categories # <<>>
    THEN {categories[i] : i \in 1..Len(categories)}
    ELSE {"No Categories Found"}

\* the duplicate check with the name compared exactly, as Add Variants does
api_create_exists_exact(inv, new_name, size) ==
    \E i \in 1..Len(inv) :
        /\ inv[i].name = new_name
        /\ lower(inv[i].size) = lower(size)

\* the duplicate check of the Create Product loop
api_create_exists(inv, new_name, size) ==
    \E i \in 1..Len(inv) :
        /\ lower(inv[i].name) = lower(new_name)
        /\ lower(inv[i].size) = lower(size)

\* the for-loop of the Create Product handler from the k-th size on;
\* st = [inv, count_added, t], ticks[k] = clock advance before size k
RECURSIVE api_create_loop(_, _, _, _)
api_create_loop(st, k, a, ticks) ==
    IF k > Len(a.sizes_list) THEN st
    ELSE LET size == a.sizes_list[k]
             t == st.t + ticks[k]
             exists == api_create_exists(st.inv, a.name, size)
             next == IF ~exists
                     THEN [inv |-> Append(st.inv,
                                     new_item(t + st.count_added, a.category,
                                              a.name, size, a.stock, t)),
                           count_added |-> st.count_added + 1,
                           t |-> t]
                     ELSE [st EXCEPT !.t = t]
         IN  api_create_loop(next, k + 1, a, ticks)

api_CreateProduct(new_category, new_name, sizes_input, initial_stock, ticks) ==
    /\ variant = "base"
    /\ new_category \in api_category_options
    /\ IF new_name # <<>> /\ sizes_input # <<>> /\ categories # <<>>
       THEN LET r == api_create_loop(
                        [inv |-> inventory, count_added |-> 0, t |-> now], 1,
                        [sizes_list |-> sizes_list(sizes_input),
                         category |-> new_category, name |-> new_name,
                         stock |-> initial_stock], ticks)
            IN  /\ inventory' = r.inv
                /\ invFile' = save_inventory(r.inv)
                /\ now' = r.t
                /\ last' = Last("CreateProduct", new_category, new_name,
                                sizes_input, initial_stock, 0, r.count_added,
                                "count", {"inventory"}, <<>>)
       ELSE /\ last' = Last("CreateProduct", new_category, new_name,
                            sizes_input, initial_stock, 0, 0, "warning",
                            {}, <<>>)
            /\ UNCHANGED <<inventory, invFile, now>>
    /\ UNCHANGED <<variant, categories, catFile, histFile>>

\* the category of the last item with the name, instead of the first
parent_category_last(inv, selected_product) ==
    IF \E i \in 1..Len(inv) : inv[i].name = selected_product
    THEN inv[CHOOSE i \in 1..Len(inv) :
                /\ inv[i].name = selected_product
                /\ \A j \in (i + 1)..Len(inv) : inv[j].name # selected_product].category
    ELSE "Uncategorized"

\* next((item['category'] for item in inventory if item['name'] == p), "Uncategorized")
parent_category(inv, selected_product) ==
    IF \E i \in 1..Len(inv) : inv[i].name = selected_product
    THEN inv[CHOOSE i \in 1..Len(inv) :
                /\ inv[i].name = selected_product
                /\ \A j \in 1..(i - 1) : inv[j].name # selected_product].category
    ELSE "Uncategorized"

\* the duplicate check of the Add Variants loop
api_variant_exists(inv, selected_product, size) ==
    \E i \in 1..Len(inv) :
        /\ inv[i].name = selected_product
        /\ lower(inv[i].size) = lower(size)

RECURSIVE api_variant_loop(_, _, _, _)
api_variant_loop(st, k, a, ticks) ==
    IF k > Len(a.sizes_list) THEN st
    ELSE LET size == a.sizes_list[k]
             t == st.t + ticks[k]
             exists == api_variant_exists(st.inv, a.name, size)
             next == IF ~exists
                     THEN [inv |-> Append(st.inv,
                                     new_item(t + st.count_added, a.category,
                                              a.name, size, a.stock, t)),
                           count_added |-> st.count_added + 1,
                           t |-> t]
                     ELSE [st EXCEPT !.t = t]
         IN  api_variant_loop(next, k + 1, a, ticks)

api_AddVariants(selected_product, new_sizes_input, variant_stock, ticks) ==
    /\ variant = "base"
    /\ selected_product \in existing_names(inventory)
    /\ IF selected_product # <<>> /\ new_sizes_input # <<>>
       THEN LET r == api_variant_loop(
                        [inv |-> inventory, count_added |-> 0, t |-> now], 1,
                        [sizes_list |-> sizes_list(new_sizes_input),
                         category |-> parent_category(inventory, selected_product),
                         name |-> selected_product, stock |-> variant_stock],
                        ticks)
            IN  /\ inventory' = r.inv
                /\ now' = r.t
                /\ IF r.count_added > 0
                   THEN /\ invFile' = save_inventory(r.inv)
                        /\ last' = Last("AddVariant", "", selected_product,
                                        new_sizes_input, variant_stock, 0,
                                        r.count_added, "count", {"inventory"},
                                        <<>>)
                   ELSE /\ invFile' = invFile
                        /\ last' = Last("AddVariant", "", selected_product,
                                        new_sizes_input, variant_stock, 0,
                                        0, "warning", {}, <<>>)
       ELSE /\ last' = Last("AddVariant", "", selected_product, new_sizes_input,
                            variant_stock, 0, 0, "warning", {}, <<>>)
            /\ UNCHANGED <<inventory, invFile, now>>
    /\ UNCHANGED <<variant, categories, catFile, histFile>>

\* the "-" button of the row with this id
api_decrement(row_id) ==
    /\ variant = "base"
    /\ row_id \in ItemIds(inventory)
    /\ inventory' = [n \in 1..Len(inventory) |->
                        IF inventory[n].id = row_id /\ inventory[n].stock > 0
                        THEN [inventory[n] EXCEPT !.stock = @ - 1]
                        ELSE inventory[n]]
    /\ invFile' = save_inventory(inventory')
    /\ last' = Last("decrement", "", <<>>, <<>>, 0, row_id, 0, "none",
                    {"inventory"}, <<>>)
    /\ UNCHANGED <<variant, categories, catFile, histFile, now>>

\* the "+" handler with a save that keeps the lines of the file whose id the
\* session does not hold
api_increment_merge(row_id) ==
    /\ variant = "base"
    /\ row_id \in ItemIds(inventory)
    /\ inventory' = [n \in 1..Len(inventory) |->
                        IF inventory[n].id = row_id
                        THEN [inventory[n] EXCEPT !.stock = @ + 1]
                        ELSE inventory[n]]
    /\ invFile' = [save_inventory(inventory') EXCEPT
                      !.rows = @ \o SelectSeq(invFile.rows,
                                      LAMBDA row : row[1] \notin ItemIds(inventory))]
    /\ last' = Last("increment", "", <<>>, <<>>, 0, row_id, 0, "none",
                    {"inventory"}, <<>>)
    /\ UNCHANGED <<variant, categories, catFile, histFile, now>>

\* the "+" button of the row with this id
api_increment(row_id) ==
    /\ variant = "base"
    /\ row_id \in ItemIds(inventory)
    /\ inventory' = [n \in 1..Len(inventory) |->
                        IF inventory[n].id = row_id
                        THEN [inventory[n] EXCEPT !.stock = @ + 1]
                        ELSE inventory[n]]
    /\ invFile' = save_inventory(inventory')
    /\ last' = Last("increment", "", <<>>, <<>>, 0, row_id, 0, "none",
                    {"inventory"}, <<>>)
    /\ UNCHANGED <<variant, categories, catFile, histFile, now>>

\* the bin button's handler without its save_inventory call
api_delete_variant_unsaved(row_id) ==
    /\ variant = "base"
    /\ row_id \in ItemIds(inventory)
    /\ inventory' = SelectSeq(inventory, LAMBDA item : item.id # row_id)
    /\ last' = Last("DeleteVariant", "", <<>>, <<>>, 0, row_id, 0, "none", {}, <<>>)
    /\ UNCHANGED <<variant, categories, invFile, catFile, histFile, now>>

\* the bin button of the row with this id
api_delete_variant(row_id) ==
    /\ variant = "base"
    /\ row_id \in ItemIds(inventory)
    /\ inventory' = SelectSeq(inventory, LAMBDA item : item.id # row_id)
    /\ invFile' = save_inventory(inventory')
    /\ last' = Last("DeleteVariant", "", <<>>, <<>>, 0, row_id, 0, "none",
                    {"inventory"}, <<>>)
    /\ UNCHANGED <<variant, categories, catFile, histFile, now>>

api_delete_product(product_name) ==
    /\ variant = "base"
    /\ product_name \in existing_names(inventory)
    /\ inventory' = SelectSeq(inventory, LAMBDA item : item.name # product_name)
    /\ invFile' = save_inventory(inventory')
    /\ last' = Last("DeleteProduct", "", product_name, <<>>, 0, 0, 0,
                    "success", {"inventory"}, <<>>)
    /\ UNCHANGED <<variant, categories, catFile, histFile, now>>

\* Series.unique(): the values in first-seen order
RECURSIVE unique(_)
unique(values) ==
    IF values = <<>> THEN <<>>
    ELSE LET rest == unique(SubSeq(values, 1, Len(values) - 1))
             v == values[Len(values)]
         IN  IF \E i \in 1..Len(rest) : rest[i] = v THEN rest ELSE Append(rest, v)

\* one row put into rows already ordered by id, behind the rows with an equal id
RECURSIVE insert_by_id(_, _)
insert_by_id(rows, row) ==
    IF rows = <<>> THEN <<row>>
    ELSE IF rows[Len(rows)].id <= row.id THEN Append(rows, row)
    ELSE Append(insert_by_id(SubSeq(rows, 1, Len(rows) - 1), row), rows[Len(rows)])

\* DataFrame.sort_values('id')
RECURSIVE sort_values_id(_)
sort_values_id(rows) ==
    IF rows = <<>> THEN <<>>
    ELSE insert_by_id(sort_values_id(SubSeq(rows, 1, Len(rows) - 1)),
                      rows[Len(rows)])

\* Series.sum() of the stock column
RECURSIVE stock_sum(_)
stock_sum(rows) ==
    IF rows = <<>> THEN 0 ELSE rows[1].stock + stock_sum(Tail(rows))

\* the dashboard without a search query: per category in stock the product
\* cards, each with its variants and the total in its title
GroupedView(inv) ==
    LET categories_in_stock == unique([i \in 1..Len(inv) |-> inv[i].category])
        card(cat_df, product_name) ==
            LET product_variants ==
                    sort_values_id(
                        SelectSeq(cat_df, LAMBDA row : row.name = product_name))
            IN  [product_name |-> product_name,
                 product_variants |-> product_variants,
                 total_stock |-> stock_sum(product_variants)]
        group(cat) ==
            LET cat_df == SelectSeq(inv, LAMBDA row : row.category = cat)
                unique_products ==
                    unique([i \in 1..Len(cat_df) |-> cat_df[i].name])
            IN  [cat |-> cat,
                 products |-> [p \in 1..Len(unique_products) |->
                                  card(cat_df, unique_products[p])]]
    IN  [g \in 1..Len(categories_in_stock) |-> group(categories_in_stock[g])]

InList(x, list) == \E i \in 1..Len(list) : list[i] = x

\* list.remove(x): drops the first occurrence
remove(list, x) ==
    LET i == CHOOSE j \in 1..Len(list) :
                 list[j] = x /\ \A m \in 1..(j - 1) : list[m] # x
    IN  SubSeq(list, 1, i - 1) \o SubSeq(list, i + 1, Len(list))

api_AddCategory(new_cat_input) ==
    /\ variant = "base"
    /\ IF new_cat_input # ""
       THEN IF ~InList(new_cat_input, categories)
            THEN /\ categories' = Append(categories, new_cat_input)
                 /\ catFile' = save_categories(categories')
                 /\ last' = Last("AddCategory", new_cat_input, <<>>, <<>>, 0, 0,
                                 0, "success", {"categories"}, <<>>)
            ELSE /\ last' = Last("AddCategory", new_cat_input, <<>>, <<>>, 0, 0,
                                 0, "warning", {}, <<>>)
                 /\ UNCHANGED <<categories, catFile>>
       ELSE /\ last' = Last("AddCategory", new_cat_input, <<>>, <<>>, 0, 0,
                            0, "none", {}, <<>>)
            /\ UNCHANGED <<categories, catFile>>
    /\ UNCHANGED <<variant, inventory, invFile, histFile, now>>

api_DeleteCategory(cat) ==
    /\ variant = "base"
    /\ InList(cat, categories)
    /\ categories' = remove(categories, cat)
    /\ catFile' = save_categories(categories')
    /\ LET before_count == Len(inventory)
           kept == SelectSeq(inventory, LAMBDA item : item.category # cat)
           deleted_count == before_count - Len(kept)
       IN  /\ inventory' = kept
           /\ invFile' = save_inventory(kept)
           /\ last' = Last("DeleteCategory", cat, <<>>, <<>>, 0, 0,
                           deleted_count, "count", {"categories", "inventory"},
                           <<>>)
    /\ UNCHANGED <<variant, histFile, now>>

----------------------------------------------------------------------------
(* src/inventory/ui.py : the history-logging variant *)

\* one log_history call, as the handler made it
Logged(product_name, size, action, change_qty, current_stock) ==
    [product_name |-> product_name, size |-> size, action |-> action,
     change |-> change_qty, final_stock |-> current_stock]

ui_category_options ==
    IF categories # <<>>
    THEN {categories[i] : i \in 1..Len(categories)}
    ELSE {"None"}

\* any(...) of the Create Product loop
ui_create_any(inv, new_name, size) ==
    \E n \in 1..Len(inv) :
        /\ lower(inv[n].name) = lower(new_name)
        /\ lower(inv[n].size) = lower(size)

\* st = [inv, count, t, hist, logged]
RECURSIVE ui_create_loop(_, _, _, _)
ui_create_loop(st, k, a, ticks) ==
    IF k > Len(a.sizes_list) THEN st
    ELSE LET size == a.sizes_list[k]
             t == st.t + ticks[k]
             any == ui_create_any(st.inv, a.name, size)
             next == IF ~any
                     THEN [inv |-> Append(st.inv,
                                     new_item(t + st.count, a.category, a.name,
                                              size, a.stock, t)),
                           count |-> st.count + 1,
                           t |-> t,
                           hist |-> log_history(st.hist, a.name, size, "Created",
                                                a.stock, a.stock, t),
                           logged |-> Append(st.logged,
                                        Logged(a.name, size, "Created", a.stock,
                                               a.stock))]
                     ELSE [st EXCEPT !.t = t]
         IN  ui_create_loop(next, k + 1, a, ticks)

ui_CreateProduct(new_cat, new_name, sizes_input, initial_stock, ticks) ==
    /\ variant = "log"
    /\ new_cat \in ui_category_options
    /\ IF new_name # <<>> /\ sizes_input # <<>>
       THEN LET r == ui_create_loop(
                        [inv |-> inventory, count |-> 0, t |-> now,
                         hist |-> histFile, logged |-> <<>>], 1,
                        [sizes_list |-> sizes_list(sizes_input),
                         category |-> new_cat, name |-> new_name,
                         stock |-> initial_stock], ticks)
            IN  /\ inventory' = r.inv
                /\ histFile' = r.hist
                /\ invFile' = save_inventory(r.inv)
                /\ now' = r.t
                /\ last' = Last("CreateProduct", new_cat, new_name, sizes_input,
                                initial_stock, 0, r.count, "count",
                                {"inventory"} \cup
                                    (IF r.logged # <<>> THEN {"history"} ELSE {}),
                                r.logged)
       ELSE /\ last' = Last("CreateProduct", new_cat, new_name, sizes_input,
                            initial_stock, 0, 0, "none", {}, <<>>)
            /\ UNCHANGED <<inventory, invFile, histFile, now>>
    /\ UNCHANGED <<variant, categories, catFile>>

\* any(...) of the Add Variant loop
ui_variant_any(inv, sel_prod, size) ==
    \E n \in 1..Len(inv) :
        /\ inv[n].name = sel_prod
        /\ lower(inv[n].size) = lower(size)

RECURSIVE ui_variant_loop(_, _, _, _)
ui_variant_loop(st, k, a, ticks) ==
    IF k > Len(a.sizes_list) THEN st
    ELSE LET size == a.sizes_list[k]
             t == st.t + ticks[k]
             any == ui_variant_any(st.inv, a.name, size)
             next == IF ~any
                     THEN [inv |-> Append(st.inv,
                                     new_item(t + st.count, a.category, a.name,
                                              size, a.stock, t)),
                           count |-> st.count + 1,
                           t |-> t,
                           hist |-> log_history(st.hist, a.name, size,
                                                "Created Variant", a.stock,
                                                a.stock, t),
                           logged |-> Append(st.logged,
                                        Logged(a.name, size, "Created Variant",
                                               a.stock, a.stock))]
                     ELSE [st EXCEPT !.t = t]
         IN  ui_variant_loop(next, k + 1, a, ticks)

ui_AddVariant(sel_prod, new_sizes, var_stock, ticks) ==
    /\ variant = "log"
    /\ sel_prod \in existing_names(inventory)
    /\ IF sel_prod # <<>> /\ new_sizes # <<>>
       THEN LET r == ui_variant_loop(
                        [inv |-> inventory, count |-> 0, t |-> now,
                         hist |-> histFile, logged |-> <<>>], 1,
                        [sizes_list |-> sizes_list(new_sizes),
                         category |-> parent_category(inventory, sel_prod),
                         name |-> sel_prod, stock |-> var_stock], ticks)
            IN  /\ inventory' = r.inv
                /\ histFile' = r.hist
                /\ invFile' = save_inventory(r.inv)
                /\ now' = r.t
                /\ last' = Last("AddVariant", "", sel_prod, new_sizes, var_stock,
                                0, r.count, "count",
                                {"inventory"} \cup
                                    (IF r.logged # <<>> THEN {"history"} ELSE {}),
                                r.logged)
       ELSE /\ last' = Last("AddVariant", "", sel_prod, new_sizes, var_stock, 0,
                            0, "none", {}, <<>>)
            /\ UNCHANGED <<inventory, invFile, histFile, now>>
    /\ UNCHANGED <<variant, categories, catFile>>

\* the "-" handler's loop over the inventory from item n on, for the clicked row
RECURSIVE ui_decrement_loop(_, _, _)
ui_decrement_loop(st, n, row) ==
    IF n > Len(st.inv) THEN st
    ELSE LET i == st.inv[n]
             next == IF i.id = row.id /\ i.stock > 0
                     THEN [st EXCEPT
                             !.inv[n].stock = @ - 1,
                             !.hist = log_history(@, row.name, row.size,
                                                  "Stock Out", -1, i.stock - 1,
                                                  st.t),
                             !.logged = Append(@, Logged(row.name, row.size,
                                                  "Stock Out", -1, i.stock - 1))]
                     ELSE st
         IN  ui_decrement_loop(next, n + 1, row)

ui_decrement(r) ==
    /\ variant = "log"
    /\ r \in 1..Len(inventory)
    /\ LET res == ui_decrement_loop(
                      [inv |-> inventory, t |-> now, hist |-> histFile,
                       logged |-> <<>>], 1, inventory[r])
       IN  /\ inventory' = res.inv
           /\ histFile' = res.hist
           /\ invFile' = save_inventory(res.inv)
           /\ last' = Last("decrement", "", <<>>, <<>>, 0, inventory[r].id,
                           0, "none",
                           {"inventory"} \cup
                               (IF res.logged # <<>> THEN {"history"} ELSE {}),
                           res.logged)
    /\ UNCHANGED <<variant, categories, catFile, now>>

RECURSIVE ui_increment_loop(_, _, _)
ui_increment_loop(st, n, row) ==
    IF n > Len(st.inv) THEN st
    ELSE LET i == st.inv[n]
             next == IF i.id = row.id
                     THEN [st EXCEPT
                             !.inv[n].stock = @ + 1,
                             !.hist = log_history(@, row.name, row.size,
                                                  "Stock In", 1, i.stock + 1,
                                                  st.t),
                             !.logged = Append(@, Logged(row.name, row.size,
                                                  "Stock In", 1, i.stock + 1))]
                     ELSE st
         IN  ui_increment_loop(next, n + 1, row)

ui_increment(r) ==
    /\ variant = "log"
    /\ r \in 1..Len(inventory)
    /\ LET res == ui_increment_loop(
                      [inv |-> inventory, t |-> now, hist |-> histFile,
                       logged |-> <<>>], 1, inventory[r])
       IN  /\ inventory' = res.inv
           /\ histFile' = res.hist
           /\ invFile' = save_inventory(res.inv)
           /\ last' = Last("increment", "", <<>>, <<>>, 0, inventory[r].id,
                           0, "none", {"inventory", "history"}, res.logged)
    /\ UNCHANGED <<variant, categories, catFile, now>>

ui_delete_variant(r) ==
    /\ variant = "log"
    /\ r \in 1..Len(inventory)
    /\ LET row == inventory[r]
       IN  /\ inventory' = SelectSeq(inventory, LAMBDA i : i.id # row.id)
           /\ histFile' = log_history(histFile, row.name, row.size,
                                      "Deleted Variant", 0, 0, now)
           /\ invFile' = save_inventory(inventory')
           /\ last' = Last("DeleteVariant", "", <<>>, <<>>, 0, row.id, 0,
                           "none", {"inventory", "history"},
                           <<Logged(row.name, row.size, "Deleted Variant", 0, 0)>>)
    /\ UNCHANGED <<variant, categories, catFile, now>>

ALL == <<"A", "L", "L">>

ui_delete_product(product_name) ==
    /\ variant = "log"
    /\ product_name \in existing_names(inventory)
    /\ inventory' = SelectSeq(inventory, LAMBDA i : i.name # product_name)
    /\ histFile' = log_history(histFile, product_name, ALL, "Deleted Product",
                               0, 0, now)
    /\ invFile' = save_inventory(inventory')
    /\ last' = Last("DeleteProduct", "", product_name, <<>>, 0, 0, 0,
                    "none", {"inventory", "history"},
                    <<Logged(product_name, ALL, "Deleted Product", 0, 0)>>)
    /\ UNCHANGED <<variant, categories, catFile, now>>

ui_AddCategory(new_cat) ==
    /\ variant = "log"
    /\ IF new_cat # "" /\ ~InList(new_cat, categories)
       THEN /\ categories' = Append(categories, new_cat)
            /\ catFile' = save_categories(categories')
            /\ last' = Last("AddCategory", new_cat, <<>>, <<>>, 0, 0, 0,
                            "success", {"categories"}, <<>>)
       ELSE /\ last' = Last("AddCategory", new_cat, <<>>, <<>>, 0, 0, 0,
                            "none", {}, <<>>)
            /\ UNCHANGED <<categories, catFile>>
    /\ UNCHANGED <<variant, inventory, invFile, histFile, now>>

ui_DeleteCategory(cat) ==
    /\ variant = "log"
    /\ InList(cat, categories)
    /\ categories' = remove(categories, cat)
    /\ catFile' = save_categories(categories')
    /\ inventory' = SelectSeq(inventory, LAMBDA i : i.category # cat)
    /\ invFile' = save_inventory(inventory')
    /\ last' = Last("DeleteCategory", cat, <<>>, <<>>, 0, 0, 0, "none",
                    {"categories", "inventory"}, <<>>)
    /\ UNCHANGED <<variant, histFile, now>>

----------------------------------------------------------------------------
(* The clock, the session start and the specifications *)

\* time passes between two submissions
Tick ==
    /\ now' = now + 1
    /\ last' = Last("tick", "", <<>>, <<>>, 0, 0, 0, "none", {}, <<>>)
    /\ UNCHANGED <<variant, inventory, categories, invFile, catFile, histFile>>

\* a history file an earlier session left, its last line damaged (one field
\* too many)
CorruptHistory ==
    [exists |-> TRUE, columns |-> HistoryColumns,
     rows |-> << <<0, <<"H">>, <<"S">>, "Created", 0, 0>>,
                 <<0, <<"H">>, <<"S">>, "Stock In", 1, 1, 1>> >>]

\* categories an earlier session left after deleting the other defaults
PriorCategories == <<"Helmets">>

Start == Last("start", "", <<>>, <<>>, 0, 0, 0, "none", {}, <<>>)

\* session start: a first run (no files), or a run after a session that left
\* an empty inventory and one category; the log variant may find a damaged
\* history file
Init ==
    /\ variant \in {"base", "log"}
    /\ now = 0
    /\ last = Start
    /\ \/ invFile = NoFile /\ catFile = NoFile
       \/ /\ invFile = save_inventory(<<>>)
          /\ catFile = save_categories(PriorCategories)
    /\ inventory = load_inventory(invFile)
    /\ categories = load_categories(catFile)
    /\ histFile \in IF variant = "log" THEN {NoFile, CorruptHistory} ELSE {NoFile}
    /\ session = "A"
    /\ other = [inventory |-> inventory, categories |-> categories]

\* the part of the state space explored: steps that leave these bounds are cut
Within(B) ==
    /\ Len(inventory') <= B.items
    /\ now' <= B.clock
    /\ Len(histFile'.rows) <= B.history
    /\ \A n \in 1..Len(inventory') : inventory'[n].stock <= B.stock

\* a handler runs in one session: the session_state of the other one is not
\* touched; the run is explored within the bounds B
Run(B) == Within(B) /\ UNCHANGED <<session, other>>

\* the clock advance before each size of a submission
Ticks(sizes_input, advances) == [1..Len(sizes_list(sizes_input)) -> advances]

\* every handler of both programs, over the inputs In = [names, sizes, stocks,
\* varstocks, cats, advances] and within the bounds B
NextOver(In, B) ==
    \/ Tick /\ Run(B)
    \/ /\ \E c \in In.cats \cup {"No Categories Found"}, n \in In.names,
            s \in In.sizes, k \in In.stocks :
            \E ticks \in Ticks(s, In.advances) :
                api_CreateProduct(c, n, s, k, ticks)
       /\ Run(B)
    \/ /\ \E n \in In.names, s \in In.sizes, k \in In.stocks :
            \E ticks \in Ticks(s, In.advances) : api_AddVariants(n, s, k, ticks)
       /\ Run(B)
    \/ (\E id \in ItemIds(inventory) : api_decrement(id)) /\ Run(B)
    \/ (\E id \in ItemIds(inventory) : api_increment(id)) /\ Run(B)
    \/ (\E id \in ItemIds(inventory) : api_delete_variant(id)) /\ Run(B)
    \/ (\E n \in In.names : api_delete_product(n)) /\ Run(B)
    \/ (\E c \in In.cats : api_AddCategory(c)) /\ Run(B)
    \/ (\E c \in In.cats : api_DeleteCategory(c)) /\ Run(B)
    \/ /\ \E c \in In.cats \cup {"None"}, n \in In.names, s \in In.sizes,
            k \in In.stocks :
            \E ticks \in Ticks(s, In.advances) :
                ui_CreateProduct(c, n, s, k, ticks)
       /\ Run(B)
    \/ /\ \E n \in In.names, s \in In.sizes, k \in In.varstocks :
            \E ticks \in Ticks(s, In.advances) : ui_AddVariant(n, s, k, ticks)
       /\ Run(B)
    \/ (\E r \in 1..Len(inventory) : ui_decrement(r)) /\ Run(B)
    \/ (\E r \in 1..Len(inventory) : ui_increment(r)) /\ Run(B)
    \/ (\E r \in 1..Len(inventory) : ui_delete_variant(r)) /\ Run(B)
    \/ (\E n \in In.names : ui_delete_product(n)) /\ Run(B)
    \/ (\E c \in In.cats : ui_AddCategory(c)) /\ Run(B)
    \/ (\E c \in In.cats : ui_DeleteCategory(c)) /\ Run(B)

\* Spec: one product name, sizes S and M, one category that is added and deleted
Inputs ==
    [names |-> {<<>>, <<"H">>},
     sizes |-> {<<>>, <<" ", ",">>, <<"S">>, <<"S", ",", "M">>},
     stocks |-> {0},
     varstocks |-> {-1, 0},
     cats |-> {"", "Helmets"},
     advances |-> {0}]

Bounds ==
    [items |-> MaxItems, clock |-> MaxClock, stock |-> MaxStock,
     history |-> MaxHistory]

Next == NextOver(Inputs, Bounds)

Spec == Init /\ [][Next]_vars

\* SpecNames: two product names that differ only in case, three items
NamesInputs ==
    [names |-> {<<"H">>, <<"h">>},
     sizes |-> {<<"S">>, <<"M">>},
     stocks |-> {0},
     varstocks |-> {0},
     cats |-> {"Helmets"},
     advances |-> {0}]

NextNames ==
    NextOver(NamesInputs, [Bounds EXCEPT !.items = MaxItems + 1])

SpecNames == Init /\ [][NextNames]_vars

\* SpecLog: the log variant's history up to four rows
LogInputs ==
    [names |-> {<<"H">>},
     sizes |-> {<<"S">>, <<"S", ",", "M">>},
     stocks |-> {0},
     varstocks |-> {0},
     cats |-> {"Helmets"},
     advances |-> {0}]

NextLog == NextOver(LogInputs, [Bounds EXCEPT !.history = MaxHistory + 2])

SpecLog == Init /\ [][NextLog]_vars

\* SpecCreate: the Create Product form alone, over size lists with blanks,
\* empty pieces and repeated sizes, names that differ in case, two categories
\* and a stock of one
CreateSizes ==
    {<<"S">>, <<" ", "s", " ">>, <<"S", ",", "s">>, <<"s", ",", "M", ",", "S">>,
     <<"S", ",", " ", "M", ",", " ", "M">>, <<" ", ",", " ">>, <<",", "M", ",">>}

\* a first run of either program
InitCreate == Init /\ invFile = NoFile /\ histFile = NoFile

NextCreate ==
    \/ /\ \E c \in {"Helmets", "Gloves"}, n \in {<<"H">>, <<"h">>},
            s \in CreateSizes, k \in {1} :
            \E ticks \in Ticks(s, {0}) : api_CreateProduct(c, n, s, k, ticks)
       /\ Run(Bounds)
    \/ /\ \E c \in {"Helmets", "Gloves"}, n \in {<<"H">>, <<"h">>},
            s \in CreateSizes, k \in {1} :
            \E ticks \in Ticks(s, {0}) : ui_CreateProduct(c, n, s, k, ticks)
       /\ Run(Bounds)

SpecCreate == InitCreate /\ [][NextCreate]_vars

\* SpecVariant: the two create forms and the bin button, for one product in
\* sizes S, M and L under two categories, up to three items
VariantCats == {"Helmets", "Gloves"}

VariantSizes == {<<"S">>, <<"M">>, <<"L">>, <<"M", ",", "L">>}

VariantBounds ==
    [Bounds EXCEPT !.items = MaxItems + 1, !.history = MaxHistory + 1]

NextVariant ==
    \/ Tick /\ Run(VariantBounds)
    \/ /\ \E c \in VariantCats, s \in VariantSizes :
            \E ticks \in Ticks(s, {0}) : api_CreateProduct(c, <<"H">>, s, 0, ticks)
       /\ Run(VariantBounds)
    \/ /\ \E s \in VariantSizes :
            \E ticks \in Ticks(s, {0}) : api_AddVariants(<<"H">>, s, 0, ticks)
       /\ Run(VariantBounds)
    \/ (\E id \in ItemIds(inventory) : api_delete_variant(id)) /\ Run(VariantBounds)
    \/ /\ \E c \in VariantCats, s \in VariantSizes :
            \E ticks \in Ticks(s, {0}) : ui_CreateProduct(c, <<"H">>, s, 0, ticks)
       /\ Run(VariantBounds)
    \/ /\ \E s \in VariantSizes :
            \E ticks \in Ticks(s, {0}) : ui_AddVariant(<<"H">>, s, 0, ticks)
       /\ Run(VariantBounds)
    \/ (\E r \in 1..Len(inventory) : ui_delete_variant(r)) /\ Run(VariantBounds)

SpecVariant == InitCreate /\ [][NextVariant]_vars

\* the other browser session gets the next script run; each session keeps its
\* own st.session_state, the files and the clock are shared
SwitchSession ==
    /\ session' = IF session = "A" THEN "B" ELSE "A"
    /\ inventory' = other.inventory
    /\ categories' = other.categories
    /\ other' = [inventory |-> inventory, categories |-> categories]
    /\ last' = Last("switch", "", <<>>, <<>>, 0, 0, 0, "none", {}, <<>>)
    /\ UNCHANGED <<variant, invFile, catFile, histFile, now>>

\* the session is opened anew (a new tab, a reload): its session_state is
\* empty and both lists are loaded from the files
StartSession ==
    /\ inventory' = load_inventory(invFile)
    /\ categories' = load_categories(catFile)
    /\ last' = Start
    /\ UNCHANGED <<variant, invFile, catFile, histFile, now, session, other>>

\* SpecSessions: two sessions of the same program on the same files, each
\* holding at most one item of one product in sizes S and M
SessionInputs ==
    [names |-> {<<"H">>},
     sizes |-> {<<"S">>, <<"M">>},
     stocks |-> {0},
     varstocks |-> {0},
     cats |-> {"Helmets"},
     advances |-> {0}]

NextSessions ==
    \/ NextOver(SessionInputs, [Bounds EXCEPT !.items = MaxItems - 1])
    \/ SwitchSession
    \/ StartSession

\* both sessions are opened on a first run, before any file exists
InitSessions == Init /\ invFile = NoFile /\ histFile = NoFile

SpecSessions == InitSessions /\ [][NextSessions]_vars

----------------------------------------------------------------------------
(* Properties *)

\* C1: no two StockItems have the same (lower-cased name, lower-cased size)
\* pair, in any state reached from an empty inventory.
C1_UniqueNameSize ==
    \A i, j \in 1..Len(inventory) :
        i # j => ~(/\ lower(inventory[i].name) = lower(inventory[j].name)
                   /\ lower(inventory[i].size) = lower(inventory[j].size))

\* C2: every StockItem has stock >= 0 in every reachable state of either
\* variant.
C2_StockNonNegative ==
    \A i \in 1..Len(inventory) : inventory[i].stock >= 0

\* C3: no two StockItems share the same id.
C3_UniqueIds ==
    \A i, j \in 1..Len(inventory) : i # j => inventory[i].id # inventory[j].id

\* the sizes a size list names: its pieces between commas, trimmed, the empty
\* ones dropped, compared without case
TokenClasses(sizes_input) ==
    LET parts == split(sizes_input)
    IN  {lower(strip(parts[i])) : i \in 1..Len(parts)} \ {<<>>}

\* the sizes the inventory already holds for a product name, without case
PresentClasses(inv, name) ==
    {lower(inv[i].size) : i \in {j \in 1..Len(inv) : lower(inv[j].name) = lower(name)}}

FreshClasses(inv, name, sizes_input) ==
    TokenClasses(sizes_input) \ PresentClasses(inv, name)

SameCreateArguments(a, b) ==
    /\ a.op = "CreateProduct" /\ b.op = "CreateProduct"
    /\ a.cat = b.cat /\ a.name = b.name /\ a.sizes = b.sizes /\ a.stock = b.stock

\* C4: for a non-empty name, a category of the list, stock >= 0 and a
\* non-empty size list, a Create Product step appends exactly one StockItem per
\* size that is distinct (trimmed, without case) and not yet present for that
\* name, each with the given category, name and stock and a trimmed size of
\* the list, leaves the earlier items as they were and reports that count; the
\* same submission made again adds nothing and reports 0.
C4_CreateProduct ==
    [][(/\ last'.op = "CreateProduct"
        /\ last'.name # <<>> /\ last'.sizes # <<>> /\ last'.stock >= 0
        /\ InList(last'.cat, categories))
       => LET fresh == FreshClasses(inventory, last'.name, last'.sizes)
              n == Len(inventory)
              added == (n + 1)..Len(inventory')
              parts == split(last'.sizes)
          IN  /\ Len(inventory') = n + Cardinality(fresh)
              /\ SubSeq(inventory', 1, n) = inventory
              /\ \A i \in added :
                    /\ inventory'[i].category = last'.cat
                    /\ inventory'[i].name = last'.name
                    /\ inventory'[i].stock = last'.stock
                    /\ lower(inventory'[i].size) \in fresh
                    /\ \E q \in 1..Len(parts) : inventory'[i].size = strip(parts[q])
              /\ \A i, j \in added :
                    i # j => lower(inventory'[i].size) # lower(inventory'[j].size)
              /\ last'.report = "count"
              /\ last'.count = Cardinality(fresh)
              /\ (SameCreateArguments(last, last') /\ last.report = "count")
                    => (inventory' = inventory /\ last'.count = 0)
      ]_vars

\* C4 witness: 'h' with sizes "s,M,S" submitted when ('H','S') is present: only
\* M is added
C4_Witness ==
    /\ last.op = "CreateProduct"
    /\ last.name = <<"h">>
    /\ last.sizes = <<"s", ",", "M", ",", "S">>
    /\ last.count = 1
    /\ Len(inventory) = 2
    /\ inventory[1].name = <<"H">> /\ inventory[1].size = <<"S">>
    /\ inventory[2].name = <<"h">> /\ inventory[2].size = <<"M">>

\* C5: a decrement of an item with stock s >= 0 leaves it at s - 1, or at 0
\* when s = 0 (so s + 1 decrements end at exactly 0 and never below), and the
\* decrement applied at stock 0 changes nothing in the inventory.
C5_DecrementFloor ==
    [][last'.op = "decrement"
       => \A n \in 1..Len(inventory) :
             (inventory[n].id = last'.id /\ inventory[n].stock >= 0)
             => /\ Len(inventory') = Len(inventory)
                /\ inventory'[n].stock =
                       IF inventory[n].stock > 0 THEN inventory[n].stock - 1 ELSE 0
                /\ inventory[n].stock = 0 => inventory' = inventory
      ]_vars

\* C6: a Delete Category step removes the name from the category list and
\* exactly the StockItems of that category, leaves every other item and name
\* as it was, and reports a deleted count equal to the number of items removed.
C6_DeleteCategory ==
    [][last'.op = "DeleteCategory"
       => /\ categories' = SelectSeq(categories, LAMBDA x : x # last'.cat)
          /\ inventory' = SelectSeq(inventory, LAMBDA i : i.category # last'.cat)
          /\ last'.report = "count"
          /\ last'.count = Len(inventory) - Len(inventory')
      ]_vars

MutatingOps ==
    {"CreateProduct", "AddVariant", "increment", "decrement", "DeleteVariant",
     "DeleteProduct", "AddCategory", "DeleteCategory"}

\* C7: after every mutating operation of a session the inventory file holds
\* the in-memory inventory and the categories file holds the in-memory category
\* list (a file not yet written reads as the empty inventory, or as the default
\* categories).
C7_FilesMirrorMemory ==
    last.op \in MutatingOps
    => /\ load_inventory(invFile) = inventory
       /\ load_categories(catFile) = categories

\* C7 witness: the base variant's Add Variants found every size present and
\* skipped its save, with items in the inventory
C7_Witness ==
    /\ variant = "base"
    /\ last.op = "AddVariant"
    /\ last.sizes # <<>>
    /\ last.report = "warning"
    /\ last.saved = {}
    /\ inventory # <<>>

\* an action that fails validation: an empty required field, no categories
\* defined, a duplicate category name, or a size list without a size
ValidationFails(l, cats) ==
    \/ /\ l.op = "CreateProduct"
       /\ l.name = <<>> \/ l.sizes = <<>> \/ cats = <<>> \/ TokenClasses(l.sizes) = {}
    \/ /\ l.op = "AddVariant"
       /\ l.sizes = <<>> \/ TokenClasses(l.sizes) = {}
    \/ /\ l.op = "AddCategory"
       /\ l.cat = "" \/ InList(l.cat, cats)

\* C8: an action that fails validation changes neither the in-memory inventory
\* nor the category list and writes no backing file.
C8_ValidationAborts ==
    [][ValidationFails(last', categories)
       => /\ inventory' = inventory
          /\ categories' = categories
          /\ last'.saved = {}
          /\ invFile' = invFile /\ catFile' = catFile /\ histFile' = histFile
      ]_vars

Repeat(x, n) == [i \in 1..n |-> x]

LoggedActions(l) == [i \in 1..Len(l.logged) |-> l.logged[i].action]

\* the actions of the last n rows of a history file
LastActions(file, n) ==
    [i \in 1..n |-> file.rows[Len(file.rows) - n + i][4]]

\* C9: in the logging variant a step appends one 'Created' entry per item
\* Create Product made, one 'Created Variant' per item Add Variant made, one
\* 'Stock In' per increment, one 'Stock Out' per decrement that changed stock,
\* one 'Deleted Variant' per Delete Variant, one 'Deleted Product' per Delete
\* Product, and none for a decrement at stock 0 or a Delete Category.
C9_HistoryEntries ==
    [][variant = "log"
       => LET acts == LoggedActions(last')
              made == Len(inventory') - Len(inventory)
          IN  /\ Len(histFile'.rows) >= Len(acts)
              /\ acts # <<>> => LastActions(histFile', Len(acts)) = acts
              /\ acts = <<>> => histFile' = histFile
              /\ CASE last'.op = "CreateProduct" -> acts = Repeat("Created", made)
                   [] last'.op = "AddVariant" ->
                          acts = Repeat("Created Variant", made)
                   [] last'.op = "increment" -> acts = <<"Stock In">>
                   [] last'.op = "decrement" ->
                          acts = IF inventory' # inventory
                                 THEN <<"Stock Out">> ELSE <<>>
                   [] last'.op = "DeleteVariant" -> acts = <<"Deleted Variant">>
                   [] last'.op = "DeleteProduct" -> acts = <<"Deleted Product">>
                   [] OTHER -> acts = <<>>
      ]_vars

IsPrefix(a, b) == Len(a) <= Len(b) /\ SubSeq(b, 1, Len(a)) = a

\* C10: across every step the history file before the step is a prefix of the
\* history file after it, also when the existing file cannot be parsed.
C10_AppendOnly ==
    [][histFile.exists
       => /\ histFile'.exists
          /\ IsPrefix(histFile.rows, histFile'.rows)
      ]_vars

\* C11: every StockItem a Create Product or Add Variant step appends has a
\* category that is in the category list at that moment, also when the list
\* is empty.
C11_CategoryMember ==
    [][last'.op \in {"CreateProduct", "AddVariant"}
       => \A n \in (Len(inventory) + 1)..Len(inventory') :
             InList(inventory'[n].category, categories)
      ]_vars

\* C12: with two sessions on the same files, a step that saves the inventory
\* leaves the inventory file equal to the in-memory inventory of the session
\* that made the step, whatever the other session wrote before; every line of
\* the earlier file that this session does not hold is gone (last writer wins).
C12_LastWriterWins ==
    []["inventory" \in last'.saved
       => /\ invFile' = save_inventory(inventory')
          /\ load_inventory(invFile') = inventory'
          /\ \A i \in 1..Len(invFile.rows) :
                (\A n \in 1..Len(inventory') :
                    InventoryRow(inventory'[n]) # invFile.rows[i])
                => \A j \in 1..Len(invFile'.rows) :
                      invFile'.rows[j] # invFile.rows[i]
      ]_vars

\* C12 witness: session B saved last; session A still holds items it had
\* saved, and none of them is in the file, which equals B's inventory
C12_Witness ==
    /\ session = "B"
    /\ last.op \in MutatingOps
    /\ "inventory" \in last.saved
    /\ inventory # <<>>
    /\ other.inventory # <<>>
    /\ load_inventory(invFile) = inventory
    /\ \A n \in 1..Len(other.inventory) :
          \A m \in 1..Len(inventory) : other.inventory[n] # inventory[m]

\* C13: the total the grouped dashboard shows for a product equals the sum of
\* stock over exactly the StockItems with that product name, also when the
\* name is present in more than one category.
C13_TotalPerProduct ==
    LET view == GroupedView(inventory)
    IN  \A g \in 1..Len(view) :
            \A p \in 1..Len(view[g].products) :
                view[g].products[p].total_stock =
                    stock_sum(SelectSeq(inventory,
                        LAMBDA item :
                            item.name = view[g].products[p].product_name))

\* the position of the first StockItem of the inventory with this name
FirstWithName(inv, name) ==
    CHOOSE i \in 1..Len(inv) :
        /\ inv[i].name = name
        /\ \A j \in 1..(i - 1) : inv[j].name # name

\* C14: an Add Variant step finds a StockItem with the chosen product name, and
\* every StockItem it appends has the category of the first such item; the
\* fallback "Uncategorized" is not assigned.
C14_VariantCategory ==
    [][last'.op = "AddVariant"
       => /\ \E i \in 1..Len(inventory) : inventory[i].name = last'.name
          /\ \A n \in (Len(inventory) + 1)..Len(inventory') :
                /\ inventory'[n].category =
                       inventory[FirstWithName(inventory, last'.name)].category
                /\ inventory'[n].category # "Uncategorized"
      ]_vars

\* C14 witness: the product had items in two categories and Add Variant gave
\* the new item the category of the first of them
C14_Witness ==
    /\ last.op = "AddVariant"
    /\ last.count = 1
    /\ Len(inventory) = 3
    /\ inventory[1].name = last.name
    /\ inventory[2].name = last.name
    /\ inventory[1].category # inventory[2].category
    /\ inventory[3].category = inventory[1].category

\* C15: an increment or decrement step changes at most the stock of one
\* StockItem, the one with the given id, and leaves every other item, every
\* other field of that item and the category list as they were; a Delete
\* Variant step removes exactly one StockItem, the one with the given id, and
\* leaves the others as they were.
C15_OneItemTouched ==
    [][/\ last'.op \in {"increment", "decrement"}
          => /\ Len(inventory') = Len(inventory)
             /\ categories' = categories
             /\ Cardinality({n \in 1..Len(inventory) :
                                inventory'[n] # inventory[n]}) <= 1
             /\ \A n \in 1..Len(inventory) :
                   inventory'[n] # inventory[n]
                   => /\ inventory[n].id = last'.id
                      /\ [inventory'[n] EXCEPT !.stock = inventory[n].stock]
                             = inventory[n]
       /\ last'.op = "DeleteVariant"
          => /\ categories' = categories
             /\ \E k \in 1..Len(inventory) :
                   /\ inventory[k].id = last'.id
                   /\ inventory' = SubSeq(inventory, 1, k - 1)
                                     \o SubSeq(inventory, k + 1, Len(inventory))
      ]_vars

====
